---- MODULE Spec2Model ----
(***************************************************************************)
(* ForumMediaAnalyzer: MediaAnalyzer.run() of                              *)
(* src/ForumMediaAnalyzer/MediaAnalyzer.py as a state machine.             *)
(*                                                                         *)
(* Spec      the whole job: the upstream listing grows between runs, each  *)
(*           run() walks the pages from an initially empty Posts store.    *)
(* SpecFair  Spec under the scheduling of a sequential program.            *)
(* SpecRace  two job instances on one database.                            *)
(*                                                                         *)
(* None is 0: ArticleIds, _ids, OrderNums and clock values all start at 1. *)
(***************************************************************************)
EXTENDS Integers, Sequences, FiniteSets, TLC

VARIABLES
    upstream,            \* the scraper's listing: documents, newest first
    nextId,              \* next fresh upstream ArticleId
    posts,               \* collection Posts, in natural (insertion) order
    counter,             \* collection Counter: val of {_id: 'OrderNum'}
    runs,                \* collection Runs, in insertion order
    pc,                  \* "idle": not inside run(); "loop": at line 160
    run,                 \* run.inserted_id
    last_article,        \* line 145
    request_offset,      \* line 152
    final_batch,         \* line 153
    last_article_found,  \* line 154
    save_all,            \* line 155
    posts_processed,     \* line 156
    batches_processed,   \* line 157
    outcome,             \* how the last run() call ended
    requests,            \* offsets requested at line 160 by the last run
    pages,               \* the pages it received and how each was left
    routed,              \* ArticleIds that reached line 227 in the last run
    scan,                \* the last corpus scan (lines 242-287) and what it did
    jobs                 \* job instances running side by side: where each is

vars == <<upstream, nextId, posts, counter, runs, pc, run, last_article,
          request_offset, final_batch, last_article_found, save_all,
          posts_processed, batches_processed, outcome, requests, pages,
          routed, scan, jobs>>

None == 0

(***************************************************************************)
(* Bounds of the model.                                                    *)
(***************************************************************************)
BatchSize == 2          \* document_retrieval_batch_size of this instance
MaxDocs == 2            \* documents the upstream listing grows to
MaxPosts == 3           \* posts the upstream listing grows to
MaxRuns == 2            \* run() calls

(***************************************************************************)
(* Program constants.                                                      *)
(***************************************************************************)
CounterSeed == 1        \* line 70
ScalePercentDif == 2    \* line 73: 0.02, in hundredths
WinSize == 7            \* line 255: win_size of structural_similarity

(***************************************************************************)
(* Images.  A decoded grayscale image (cv2.imdecode) is a numpy array of   *)
(* shape (h, w) of uint8.  pix is its first column, top to bottom: for the *)
(* arrays of width 1 that is the whole array.                              *)
(***************************************************************************)
Image(h, w, pix) == [h |-> h, w |-> w, pix |-> pix]

NoImage == Image(0, 0, <<>>)             \* None where an image is expected

ImgS == Image(2, 1, <<100, 100>>)
ImgU == Image(3, 1, <<100, 50, 100>>)

\* what the posts of the listing carry: two images, or data that cv2.imdecode
\* cannot decode
RunImages == {ImgS, ImgU, NoImage}

Abs(x) == IF x < 0 THEN -x ELSE x

Min(a, b) == IF a < b THEN a ELSE b

Max(a, b) == IF a > b THEN a ELSE b

Shape(im) == <<im.h, im.w>>
Size(im) == im.h * im.w

(***************************************************************************)
(* Records of the Posts collection.  _id is the position in the            *)
(* collection: insert_one appends and nothing is ever deleted.  The bulk   *)
(* path (lines 197-207) stores the blob under the key "Media" and sets     *)
(* OrderNum; the detection path (lines 232-241) stores it under "MediaId"  *)
(* and sets no OrderNum.                                                   *)
(***************************************************************************)
Post(id, article, order, runId, im, key, orig, of, reposts) ==
    [_id |-> id, ArticleId |-> article, OrderNum |-> order, RunId |-> runId,
     Dim |-> Shape(im), MediaKey |-> key, Media |-> im, IsOriginal |-> orig,
     RepostOff |-> of, Reposts |-> reposts]

NoPost == Post(None, None, None, None, NoImage, "None", FALSE, None, <<>>)

(***************************************************************************)
(* IEEE double arithmetic of line 80 on uint8 operands.  x0 / x1 is the    *)
(* double nearest to the quotient (ties to even).  For 0 < x0 / x1 < 256   *)
(* the quotient lies in [2^(e-8), 2^(e-7)) with e = Lg(x0, x1), the        *)
(* doubles there are 2^(e-60) apart, and                                   *)
(* RoundErr(x0, x1) / x1 is the rounding error fl(x0/x1) - x0/x1 in units  *)
(* of 2^-60.                                                               *)
(***************************************************************************)
RECURSIVE Pow2(_)
Pow2(k) == IF k = 0 THEN 1 ELSE 2 * Pow2(k - 1)

RECURSIVE Pow2Mod(_, _)
Pow2Mod(k, m) == IF k = 0 THEN 1 % m ELSE (2 * Pow2Mod(k - 1, m)) % m

Lg(x0, x1) ==
    CHOOSE e \in 0..15 : Pow2(e) * x1 <= 256 * x0 /\ Pow2(e + 1) * x1 > 256 * x0

RoundErr(x0, x1) ==
    IF x0 = 0 THEN 0
    ELSE LET e == Lg(x0, x1)
             \* x0 * 2^(60-e) = q * x1 + r, and R = (q % 2) * x1 + r
             R == ((x0 % (2 * x1)) * Pow2Mod(60 - e, 2 * x1)) % (2 * x1)
             r == R % x1
             up == 2 * r > x1 \/ (2 * r = x1 /\ R >= x1)
         IN  (IF up THEN x1 - r ELSE -r) * Pow2(e)

\* abs(a0/a1 - b0/b1) >= 0.02 for a1, b1 > 0.  Off the boundary the exact
\* quotients decide: they differ from 0.02 by at least 1/(50 * 255 * 255),
\* far more than the rounding.  When the exact difference is 1/50, the
\* difference D of the two doubles is 1/50 plus their rounding errors, the
\* constant c is the double nearest to 0.02, whose mantissa is odd, and the
\* subtraction rounds D to c or above exactly when D lies above the midpoint
\* of c and the double below it.
FloatTooFar(a0, a1, b0, b1) ==
    LET d == a0 * b1 - b0 * a1
        c == RoundErr(ScalePercentDif, 100)
        half == Pow2(Lg(ScalePercentDif, 100) - 1)
    IN  IF 100 * Abs(d) > ScalePercentDif * a1 * b1 THEN TRUE
        ELSE IF 100 * Abs(d) < ScalePercentDif * a1 * b1 THEN FALSE
        ELSE (IF d > 0 THEN 1 ELSE -1)
                 * 100 * (RoundErr(a0, a1) * b1 - RoundErr(b0, b1) * a1)
             > (c - 100 * half) * a1 * b1

(***************************************************************************)
(* Naturals of any size, for the float arithmetic of cv2.resize: limbs of  *)
(* 15 bits, least significant first, no zero limb at the top.              *)
(***************************************************************************)
Limb == Pow2(15)

RECURSIVE BigNorm(_)
BigNorm(a) ==
    IF a = <<>> THEN a
    ELSE IF a[Len(a)] = 0 THEN BigNorm(SubSeq(a, 1, Len(a) - 1)) ELSE a

\* n < 2^31
BigOf(n) == BigNorm(<<n % Limb, (n \div Limb) % Limb, n \div (Limb * Limb)>>)

LimbAt(a, i) == IF i <= Len(a) THEN a[i] ELSE 0

Rest(a) == IF a = <<>> THEN a ELSE Tail(a)

\* a < 2^31
BigInt(a) == LimbAt(a, 1) + LimbAt(a, 2) * Limb + LimbAt(a, 3) * Limb * Limb

RECURSIVE BigAddC(_, _, _)
BigAddC(a, b, c) ==
    IF a = <<>> /\ b = <<>> THEN (IF c = 0 THEN <<>> ELSE <<c>>)
    ELSE LET s == LimbAt(a, 1) + LimbAt(b, 1) + c
         IN  <<s % Limb>> \o BigAddC(Rest(a), Rest(b), s \div Limb)

BigAdd(a, b) == BigAddC(a, b, 0)

RECURSIVE BigSubB(_, _, _)
BigSubB(a, b, borrow) ==
    IF a = <<>> THEN <<>>
    ELSE LET d == a[1] - LimbAt(b, 1) - borrow
         IN  <<d % Limb>> \o BigSubB(Tail(a), Rest(b), IF d < 0 THEN 1 ELSE 0)

\* a - b for a >= b
BigSub(a, b) == BigNorm(BigSubB(a, b, 0))

RECURSIVE BigCmpFrom(_, _, _)
BigCmpFrom(a, b, i) ==
    IF i = 0 THEN 0
    ELSE IF a[i] # b[i] THEN (IF a[i] > b[i] THEN 1 ELSE -1)
    ELSE BigCmpFrom(a, b, i - 1)

\* 1, 0, -1 as a > b, a = b, a < b
BigCmp(a, b) ==
    IF Len(a) # Len(b) THEN (IF Len(a) > Len(b) THEN 1 ELSE -1)
    ELSE BigCmpFrom(a, b, Len(a))

RECURSIVE BigMulC(_, _, _)
BigMulC(a, k, c) ==
    IF a = <<>> THEN (IF c = 0 THEN <<>> ELSE <<c>>)
    ELSE LET s == a[1] * k + c
         IN  <<s % Limb>> \o BigMulC(Tail(a), k, s \div Limb)

\* a * k for k < 2^15
BigTimes(a, k) == IF k = 0 THEN <<>> ELSE BigMulC(a, k, 0)

BigShiftLimbs(a, n) == IF a = <<>> THEN a ELSE [i \in 1..n |-> 0] \o a

RECURSIVE BigMul(_, _)
BigMul(a, b) ==
    IF a = <<>> \/ b = <<>> THEN <<>>
    ELSE BigAdd(BigTimes(a, b[1]), BigShiftLimbs(BigMul(a, Tail(b)), 1))

\* a * 2^n
BigShl(a, n) == BigShiftLimbs(BigTimes(a, Pow2(n % 15)), n \div 15)

\* a \div 2^n
BigShr(a, n) ==
    LET k == n % 15
        b == IF n \div 15 >= Len(a) THEN <<>>
             ELSE SubSeq(a, (n \div 15) + 1, Len(a))
    IN  BigNorm([i \in 1..Len(b) |->
                    (b[i] \div Pow2(k)) + (LimbAt(b, i + 1) % Pow2(k)) * Pow2(15 - k)])

\* a % 2^n
BigLow(a, n) ==
    BigNorm([i \in 1..Min(Len(a), (n \div 15) + 1) |->
                IF i <= n \div 15 THEN a[i] ELSE a[i] % Pow2(n % 15)])

RECURSIVE Bits(_)
Bits(n) == IF n = 0 THEN 0 ELSE 1 + Bits(n \div 2)

BigBits(a) == IF a = <<>> THEN 0 ELSE 15 * (Len(a) - 1) + Bits(a[Len(a)])

\* one more bit of a long division by d: the quotient so far and twice the
\* remainder
BigQRBit(q, r2, d) ==
    IF BigCmp(r2, d) >= 0
    THEN [q |-> BigAdd(BigTimes(q, 2), <<1>>), r |-> BigSub(r2, d)]
    ELSE [q |-> BigTimes(q, 2), r |-> r2]

BigQRStep(p, d) == BigQRBit(p.q, BigTimes(p.r, 2), d)

\* the one element of a set of one: an expression bound over {e} has e
\* computed before its own evaluation begins
The(S) == CHOOSE x \in S : TRUE

\* two bits
BigQRTwice(P, d) == {BigQRStep(q, d) : q \in {BigQRStep(p, d) : p \in P}}

\* eight bits
BigQRByte(p, d) ==
    The(BigQRTwice(BigQRTwice(BigQRTwice(BigQRTwice({p}, d), d), d), d))

\* k more bits after the quotient and remainder p
RECURSIVE BigQRLoop(_, _, _)
BigQRLoop(p, d, k) ==
    IF p.r = <<>> THEN [q |-> BigShl(p.q, k), r |-> <<>>]
    ELSE IF k = 0 THEN p
    ELSE IF k >= 8 THEN BigQRLoop(BigQRByte(p, d), d, k - 8)
    ELSE BigQRLoop(BigQRStep(p, d), d, k - 1)

\* quotient and remainder of n * 2^k by d, for n < d
BigQR(n, d, k) == BigQRLoop([q |-> <<>>, r |-> n], d, k)

(***************************************************************************)
(* Dyadic numbers s * n * 2^e, exact, and their rounding to float32 (24    *)
(* significant bits) and to double (53), ties to even.  A float is a       *)
(* dyadic number of at most 24 bits (25 when a rounding carried into       *)
(* 2^24).                                                                  *)
(***************************************************************************)
Dy(s, n, e) == [s |-> s, n |-> n, e |-> e]

DyOf(k) == Dy(IF k < 0 THEN -1 ELSE 1, BigOf(Abs(k)), 0)

DyNeg(x) == [x EXCEPT !.s = -x.s]

DyAdd(x, y) ==
    IF x.n = <<>> THEN y
    ELSE IF y.n = <<>> THEN x
    ELSE LET e == Min(x.e, y.e)
             a == BigShl(x.n, x.e - e)
             b == BigShl(y.n, y.e - e)
             c == BigCmp(a, b)
         IN  IF x.s = y.s THEN Dy(x.s, BigAdd(a, b), e)
             ELSE IF c = 0 THEN Dy(1, <<>>, 0)
             ELSE IF c > 0 THEN Dy(x.s, BigSub(a, b), e)
             ELSE Dy(y.s, BigSub(b, a), e)

DyMul(x, y) ==
    IF x.n = <<>> \/ y.n = <<>> THEN Dy(1, <<>>, 0)
    ELSE Dy(x.s * y.s, BigMul(x.n, y.n), x.e + y.e)

\* n with its lowest r bits rounded away, ties to even (r >= 1)
BigRound(n, r) ==
    LET q == BigShr(n, r)
        c == BigCmp(BigLow(n, r), BigShl(<<1>>, r - 1))
    IN  IF c > 0 \/ (c = 0 /\ LimbAt(q, 1) % 2 = 1) THEN BigAdd(q, <<1>>) ELSE q

\* x with the lowest r bits of x.n rounded away
DyCut(x, r) == IF r <= 0 THEN x ELSE Dy(x.s, BigRound(x.n, r), x.e + r)

\* the float32 nearest to x
Float(x) == DyCut(x, BigBits(x.n) - 24)

\* the double nearest to x
Double(x) == DyCut(x, BigBits(x.n) - 53)

\* cvRound: the integer nearest to x, ties to even
DyRound(x) ==
    IF x.e >= 0 THEN x.s * BigInt(BigShl(x.n, x.e))
    ELSE x.s * BigInt(BigRound(x.n, -x.e))

\* cvFloor
DyFloor(x) ==
    IF x.e >= 0 THEN x.s * BigInt(BigShl(x.n, x.e))
    ELSE IF x.s > 0 THEN BigInt(BigShr(x.n, -x.e))
    ELSE -(BigInt(BigShr(x.n, -x.e)) + IF BigLow(x.n, -x.e) = <<>> THEN 0 ELSE 1)

\* a quotient with one more bit that tells whether anything was cut off
Sticky(d) ==
    BigAdd(BigTimes(d.q, 2), IF d.r = <<>> THEN <<>> ELSE <<1>>)

\* the double nearest to n / d * 2^e for n < d, from 64 bits of the quotient
\* and the remainder
DoubleQuot(n, d, e) ==
    The({Double(Dy(1, Sticky(qr), e - 65)) : qr \in {BigQR(n, d, 64)}})

\* n and d with the shorter of the two shifted to make n one bit shorter
\* than d: t = BigBits(d) - BigBits(n) - 1
DoubleDivBy(x, y, t) ==
    The({DoubleQuot(n, d, x.e - y.e - t) :
            n \in {BigShl(x.n, Max(t, 0))}, d \in {BigShl(y.n, Max(-t, 0))}})

\* x / y in double, for x > 0 and y > 0
DoubleDiv(x, y) == DoubleDivBy(x, y, BigBits(y.n) - BigBits(x.n) - 1)

(***************************************************************************)
(* cv2.resize(src, dsize, interpolation=INTER_CUBIC) of a uint8 array of   *)
(* one column to h rows.  For row dy the library takes                     *)
(* fy = (float)((dy + 0.5) * src.h / h - 0.5), sy = cvFloor(fy) and the    *)
(* four weights of interpolateCubic at fy - sy, computed in float32 and    *)
(* rounded to multiples of 1/2048; rows beyond the border are replaced by  *)
(* the border row, the sum is rounded and saturated to 0..255.             *)
(* fy itself is computed in double, from scale_y = 1./(h / src.h), and     *)
(* then cast to float.  The products followed by a sum, in fy and in       *)
(* interpolateCubic, are compiled either into separate multiplications and *)
(* additions ("plain") or into fused multiply-adds, which round once       *)
(* ("fma"): sy and the weights depend on the build of the library.         *)
(***************************************************************************)
Builds == {"plain", "fma"}

Quarter(k) == Dy(IF k < 0 THEN -1 ELSE 1, BigOf(Abs(k)), -2)

\* the product inside a * b + c: rounded on its own unless fused
Product(build, p) == IF build = "fma" THEN p ELSE Float(p)

\* the same in double
DoubleProduct(build, p) == IF build = "fma" THEN p ELSE Double(p)

\* a * b + c in double
DoubleMulAdd(build, a, b, c) ==
    The({Double(DyAdd(p, c)) : p \in {DoubleProduct(build, DyMul(a, b))}})

\* a * b + c in float32
MulAdd(build, a, b, c) ==
    The({Float(DyAdd(p, c)) : p \in {Product(build, DyMul(a, b))}})

\* ((A*x1 - 5*A)*x1 + 8*A)*x1 - 4*A with A = -0.75
CubicHorner(build, x1) ==
    The({MulAdd(build, b, x1, DyOf(3)) :
            b \in {MulAdd(build, a, x1, DyOf(-6)) :
                      a \in {MulAdd(build, Quarter(-3), x1, Quarter(15))}}})

\* coeffs[0], at x1 = x + 1
CubicOuter(build, x) ==
    The({CubicHorner(build, x1) : x1 \in {Float(DyAdd(x, DyOf(1)))}})

\* ((A + 2)*x - (A + 3))*x*x + 1
CubicInner(build, x) ==
    The({MulAdd(build, t, x, DyOf(1)) :
            t \in {Float(DyMul(u, x)) :
                      u \in {MulAdd(build, Quarter(5), x, Quarter(-9))}}})

\* a - b in float32
FloatSub(a, b) == Float(DyAdd(a, DyNeg(b)))

\* coeffs[3] = 1.f - coeffs[0] - coeffs[1] - coeffs[2]
CubicLast(c0, c1, c2) ==
    <<c0, c1, c2,
      The({FloatSub(t, c2) :
              t \in {FloatSub(s, c1) : s \in {FloatSub(DyOf(1), c0)}}})>>

\* interpolateCubic(x, coeffs)
CubicCoeffs(build, x) ==
    The({CubicLast(c0, c1, c2) :
            c0 \in {CubicOuter(build, x)}, c1 \in {CubicInner(build, x)},
            c2 \in {CubicInner(build, y) : y \in {FloatSub(DyOf(1), x)}}})

Clip(i, lo, hi) == IF i < lo THEN lo ELSE IF i > hi THEN hi ELSE i

\* the weights c as shorts: saturate_cast<short>(c * 2048)
FixedWeights(sy, c) ==
    [sy |-> sy, w |-> [k \in 1..4 |-> DyRound(DyMul(c[k], DyOf(2048)))]]

\* fy -= sy
WeightsAt(build, fy, sy) ==
    The({FixedWeights(sy, c) :
            c \in {CubicCoeffs(build, x) : x \in {FloatSub(fy, DyOf(sy))}}})

\* sy = cvFloor(fy)
WeightsOf(build, fy) ==
    The({WeightsAt(build, fy, sy) : sy \in {DyFloor(fy)}})

\* scale_y = 1./inv_scale_y with inv_scale_y = (double)h / srch
ScaleY(srch, h) ==
    The({DoubleDiv(DyOf(1), inv) : inv \in {DoubleDiv(DyOf(h), DyOf(srch))}})

\* (dy + 0.5)*scale_y - 0.5
FyOf(build, scale_y, dy) ==
    DoubleMulAdd(build, Dy(1, BigOf(2 * dy + 1), -1), scale_y,
                 Dy(-1, <<1>>, -1))

\* sy and the four weights, times 2048, of row dy (from 0) when srch rows
\* are resized to h rows; fy is cast to float
CubicWeights(build, srch, h, dy) ==
    The({WeightsOf(build, fy) :
            fy \in {Float(d) : d \in {FyOf(build, scale_y, dy) :
                                          scale_y \in {ScaleY(srch, h)}}}})

\* the vertical pass: four rows of the source, weighted, rounded, saturated
VResizeCubic(cw, im) ==
    Clip((cw.w[1] * im.pix[Clip(cw.sy, 1, im.h)]
          + cw.w[2] * im.pix[Clip(cw.sy + 1, 1, im.h)]
          + cw.w[3] * im.pix[Clip(cw.sy + 2, 1, im.h)]
          + cw.w[4] * im.pix[Clip(cw.sy + 3, 1, im.h)] + 1024) \div 2048,
         0, 255)

\* row dy (from 0) of the result
CubicRow(build, im, h, dy) ==
    The({VResizeCubic(cw, im) : cw \in {CubicWeights(build, im.h, h, dy)}})

ResizeBy(build, im, h, w) ==
    [im EXCEPT !.h = h, !.w = w,
               !.pix = [i \in 1..h |-> CubicRow(build, im, h, i - 1)]]

\* the arrays the builds of the library return
Resize(im, h, w) == {ResizeBy(build, im, h, w) : build \in Builds}

(***************************************************************************)
(* _scale_images, lines 73-95.  The arguments are arrays, so               *)
(* image_one[0] / image_one[1] divides the first pixel row by the second   *)
(* (IndexError on an array of one row) and the comparison with             *)
(* scale_percent_dif yields one boolean per column: the if raises          *)
(* ValueError unless both arrays are one pixel wide.  sum(image[:2]) adds  *)
(* the first two rows in uint8.                                            *)
(***************************************************************************)
Scaled(exc, one, two) == [exc |-> exc, one |-> one, two |-> two]

\* line 80 on rows of one pixel: x/0 is inf for x > 0 and nan for x = 0, and
\* no comparison with nan holds
RatioTooFar(a, b) ==
    LET a0 == a.pix[1]  a1 == a.pix[2]
        b0 == b.pix[1]  b1 == b.pix[2]
        nanA == a1 = 0 /\ a0 = 0
        nanB == b1 = 0 /\ b0 = 0
        infA == a1 = 0 /\ a0 > 0
        infB == b1 = 0 /\ b0 > 0
    IN  IF nanA \/ nanB \/ (infA /\ infB) THEN FALSE
        ELSE IF infA \/ infB THEN TRUE
        ELSE FloatTooFar(a0, a1, b0, b1)

RowSum(im) == (im.pix[1] + im.pix[2]) % 256

\* the results the call can have: one, unless cv2.resize is reached
scale_images(image_one, image_two) ==
    IF image_one = NoImage \/ image_two = NoImage                 \* line 77
    THEN {Scaled("AttributeError", image_one, image_two)}
    ELSE IF Shape(image_one) = Shape(image_two)
    THEN {Scaled("none", image_one, image_two)}
    ELSE IF image_one.h < 2 \/ image_two.h < 2
    THEN {Scaled("IndexError", image_one, image_two)}
    ELSE IF image_one.w > 1 \/ image_two.w > 1
    THEN {Scaled("ValueError", image_one, image_two)}
    ELSE IF RatioTooFar(image_one, image_two)
    THEN {Scaled("none", NoImage, NoImage)}
    ELSE IF RowSum(image_one) > RowSum(image_two)
    THEN {Scaled("none", r, image_two) :
             r \in Resize(image_one, image_two.h, image_two.w)}
    ELSE {Scaled("none", image_one, r) :
             r \in Resize(image_two, image_one.h, image_one.w)}

(***************************************************************************)
(* Line 249, "if not im": None is false; an array of one pixel is as true  *)
(* as that pixel; bool() of an array of several pixels raises ValueError.  *)
(***************************************************************************)
NotIm(im) ==
    IF im = NoImage THEN "true"
    ELSE IF Size(im) > 1 THEN "ValueError"
    ELSE IF im.pix[1] = 0 THEN "true" ELSE "false"

(***************************************************************************)
(* Line 255: skimage's structural_similarity slides a window of win_size   *)
(* (7) pixels a side over the arrays and raises ValueError ("win_size      *)
(* exceeds image extent") when a side is shorter than the window.          *)
(***************************************************************************)
structural_similarity(im, im0) ==
    IF im.h < WinSize \/ im.w < WinSize THEN "ValueError" ELSE "none"

(***************************************************************************)
(* Database calls (gridfs.put, gridfs.get, find, find_one, insert_one,     *)
(* update) block on the server and raise ServerSelectionTimeoutError when  *)
(* it cannot be reached.  db counts the calls made while a page is handled *)
(* and names the one that fails: the fault-th call raises, and with fault  *)
(* 0 none does.                                                            *)
(***************************************************************************)
Db(calls, fault) == [calls |-> calls, fault |-> fault]

\* the next call raises
Fails(db) == db.calls + 1 = db.fault

Call(db) == [db EXCEPT !.calls = @ + 1]

(***************************************************************************)
(* Lines 244-252: one pass of "for pp in processed_posts".  s carries the  *)
(* draft md, the candidate array im (rebound at line 248), the store, the  *)
(* exception that ended the scan, and a log of the entries the scan got    *)
(* past.  An array that passes line 249 holds one pixel, so line 255       *)
(* raises for it: no entry is ever scored, and lines 256-284 (the          *)
(* thresholds, md.update, the evidence and replace_one) are never reached. *)
(***************************************************************************)
Visit(pp, compared) == [pp |-> pp._id, compared |-> compared]

\* lines 249-255
Truth(pp, s, im, im0, t) ==
    IF t = "ValueError" THEN [s EXCEPT !.im = im, !.exc = t]
    ELSE IF t = "true"                                            \* line 252
    THEN [s EXCEPT !.im = im, !.log = Append(@, Visit(pp, FALSE))]
    ELSE [s EXCEPT !.im = im, !.exc = structural_similarity(im, im0)]

\* line 248: im, im0 = self._scale_images(im, im0)
Rebind(pp, s, sc) ==
    IF sc.exc # "none" THEN [s EXCEPT !.exc = sc.exc]
    ELSE Truth(pp, s, sc.one, sc.two, NotIm(sc.one))

\* lines 245-248: pp['MediaId'], then gridfs.get and _scale_images
ScanStep(pp, s) ==
    IF pp.MediaKey # "MediaId"
    THEN {[s EXCEPT !.exc = "KeyError"]}
    ELSE IF Fails(s.db)
    THEN {[s EXCEPT !.exc = "ServerSelectionTimeoutError", !.db = Call(@)]}
    ELSE {Rebind(pp, [s EXCEPT !.db = Call(@)], sc) :
             sc \in scale_images(s.im, pp.Media)}

RECURSIVE ScanCorpus(_, _)
ScanCorpus(processed_posts, s) ==
    IF processed_posts = <<>> \/ s.exc # "none" THEN {s}
    ELSE UNION {ScanCorpus(Tail(processed_posts), t) :
                   t \in ScanStep(Head(processed_posts), s)}

(***************************************************************************)
(* Lines 227-287: one post on the detection path.  A result is the store   *)
(* afterwards, the exception that ended it (if any), the record of the     *)
(* scan and the count of database calls.                                   *)
(***************************************************************************)
NoScan ==
    [cand |-> None, im |-> NoImage, before |-> <<>>, exc |-> "none",
     log |-> <<>>, inserted |-> FALSE]

ScanRec(post, store, exc, log) ==
    [cand |-> post.ArticleId, im |-> post.MediaData, before |-> store,
     exc |-> exc, log |-> log, inserted |-> exc = "none"]

Detected(store, exc, sc, db) ==
    [store |-> store, exc |-> exc, scan |-> sc, db |-> db]

\* what a post that raised exc leaves behind
Undetected(post, store, exc, log, db) ==
    Detected(store, exc, ScanRec(post, store, exc, log), db)

\* line 287, reached when the scan raised nothing
Insert(post, store, s) ==
    IF s.exc # "none" THEN Undetected(post, store, s.exc, s.log, s.db)
    ELSE IF Fails(s.db)
    THEN Undetected(post, store, "ServerSelectionTimeoutError", s.log,
                    Call(s.db))
    ELSE Detected(Append(s.store, [s.md EXCEPT !._id = Len(s.store) + 1]),
                  "none", ScanRec(post, store, "none", s.log), Call(s.db))

DetectPost(post, runId, store, db) ==
    IF Fails(db)                                      \* line 231: gridfs.put
    THEN {Undetected(post, store, "ServerSelectionTimeoutError", <<>>,
                     Call(db))}
    ELSE IF post.MediaData = NoImage                     \* line 236: im.shape
    THEN {Undetected(post, store, "AttributeError", <<>>, Call(db))}
    ELSE IF Fails(Call(db))                     \* lines 242-244: the cursor
    THEN {Undetected(post, store, "ServerSelectionTimeoutError", <<>>,
                     Call(Call(db)))}
    ELSE {Insert(post, store, s) :
             s \in ScanCorpus(store,
                 [md |-> Post(None, post.ArticleId, None, runId,
                              post.MediaData, "MediaId", TRUE, None, <<>>),
                  im |-> post.MediaData, store |-> store, exc |-> "none",
                  log |-> <<>>, db |-> Call(Call(db))])}

(***************************************************************************)
(* The upstream listing (GET /query?limit=&offset=): documents, each with  *)
(* a StartPostId and its posts, the newest document first.  ArticleIds are *)
(* strings upstream, so str() at lines 198 and 233 returns its argument.   *)
(***************************************************************************)
UpPost(article, im) == [ArticleId |-> article, MediaData |-> im]

Doc(start, ps) == [StartPostId |-> start, Posts |-> ps]

Query(limit, offset) ==
    SubSeq(upstream, offset + 1, Min(offset + limit, Len(upstream)))

HasPosts(doc) == Len(doc.Posts) # 0

\* line 180: every document of the page has no posts
NoPostsInBatch(documents) == \A i \in 1..Len(documents) : ~HasPosts(documents[i])

\* ArticleId of the newest post listed, None if no post is listed
RECURSIVE HeadId(_)
HeadId(docs) ==
    IF docs = <<>> THEN None
    ELSE IF HasPosts(Head(docs)) THEN Head(docs).Posts[1].ArticleId
    ELSE HeadId(Tail(docs))

(***************************************************************************)
(* Line 145: find_one(sort=[("OrderNum", ASCENDING)]).  A record without   *)
(* OrderNum sorts as null, before every number; which of several records   *)
(* with the same key comes first is not specified, so every one of them is *)
(* a possible result.                                                      *)
(***************************************************************************)
FindOneByOrderNum(store) ==
    IF store = <<>> THEN {NoPost}
    ELSE {store[i] : i \in {j \in 1..Len(store) :
             \A k \in 1..Len(store) : store[j].OrderNum <= store[k].OrderNum}}

\* line 155: save_all = False if last_article else True
SaveAllAlways(la) == TRUE

SaveAllMode(la) == la = NoPost

(***************************************************************************)
(* run() never validates the documents of an answer.  An answer can hold   *)
(* one entry that is not as the listing has it: a post that is no object   *)
(* (post['...'] raises TypeError), a post without 'ArticleId' or without   *)
(* 'MediaData' (KeyError), a post whose 'MediaData' is no base64 text      *)
(* (binascii.Error at lines 192 and 228), or a document without            *)
(* 'StartPostId' (KeyError at line 214).  at counts the posts of the page  *)
(* for a form of PostForms and its documents with posts for DocForms; 0    *)
(* stands for the answer as listed.                                        *)
(***************************************************************************)
PostForms == {"NotObject", "NoArticleId", "NoMediaData", "BadBase64"}

DocForms == {"NoStartPostId"}

Answer(at, form) == [at |-> at, form |-> form]

WellFormed == Answer(0, "ok")

\* the form in which entry i arrives
FormAt(bad, forms, i) ==
    IF bad.at = i /\ bad.form \in forms THEN bad.form ELSE "ok"

(***************************************************************************)
(* Lines 189-210: the bulk path over the posts of one page.  Each post     *)
(* makes four database calls: gridfs.put (195), Counter.find_one (196),    *)
(* Posts.insert_one (208) and Counter.update (209).                        *)
(***************************************************************************)
CounterStuck(val) == val

\* line 209: $inc val by 1
CounterInc(val) == val + 1

RECURSIVE PagePosts(_)
PagePosts(documents) ==
    IF documents = <<>> THEN <<>>
    ELSE Head(documents).Posts \o PagePosts(Tail(documents))

BulkRecordLinked(post, runId, st) ==
    Post(Len(st.store) + 1, post.ArticleId, st.counter, runId,
         post.MediaData, "Media", TRUE, Len(st.store) + 1, <<>>)

\* lines 197-207
BulkRecord(post, runId, st) ==
    Post(Len(st.store) + 1, post.ArticleId, st.counter, runId,
         post.MediaData, "Media", TRUE, None, <<>>)

\* lines 191-210: one post
BulkPost(post, form, runId, st) ==
    IF form = "NotObject"                                         \* line 191
    THEN [st EXCEPT !.exc = "TypeError"]
    ELSE IF form = "NoMediaData"                                  \* line 191
    THEN [st EXCEPT !.exc = "KeyError"]
    ELSE IF form = "BadBase64"                                    \* line 192
    THEN [st EXCEPT !.exc = "binascii.Error"]
    ELSE IF Fails(st.db) \/ Fails(Call(st.db))            \* lines 195, 196
    THEN [st EXCEPT !.exc = "ServerSelectionTimeoutError",
                    !.db = Call(Call(@))]
    ELSE IF form = "NoArticleId"                                  \* line 198
    THEN [st EXCEPT !.exc = "KeyError", !.db = Call(Call(@))]
    ELSE IF post.MediaData = NoImage                     \* line 202: im.shape
    THEN [st EXCEPT !.exc = "AttributeError", !.db = Call(Call(@))]
    ELSE IF Fails(Call(Call(st.db)))                              \* line 208
    THEN [st EXCEPT !.exc = "ServerSelectionTimeoutError",
                    !.db = Call(Call(Call(@)))]
    ELSE IF Fails(Call(Call(Call(st.db))))                        \* line 209
    THEN [st EXCEPT !.store = Append(@, BulkRecord(post, runId, st)),
                    !.exc = "ServerSelectionTimeoutError",
                    !.db = Call(Call(Call(Call(@))))]
    ELSE [st EXCEPT
            !.store = Append(@, BulkRecord(post, runId, st)),     \* line 208
            !.counter = CounterInc(@),                            \* line 209
            !.processed = @ + 1,                                  \* line 210
            !.db = Call(Call(Call(Call(@))))]

\* the posts ps of a page, of which the first is its i-th
RECURSIVE BulkAdmit(_, _, _, _, _)
BulkAdmit(ps, i, bad, runId, st) ==
    IF ps = <<>> \/ st.exc # "none" THEN st
    ELSE BulkAdmit(Tail(ps), i + 1, bad, runId,
             BulkPost(Head(ps), FormAt(bad, PostForms, i), runId, st))

(***************************************************************************)
(* Lines 213-287: the resume path over the documents of one page.          *)
(***************************************************************************)
StartOnly(la, doc, found) == la.ArticleId = doc.StartPostId

\* line 214
DocIsStale(la, doc, found) == la.ArticleId = doc.StartPostId \/ found

\* line 221
IsLastArticle(la, post) == la.ArticleId = post.ArticleId

\* lines 227-287 for one post before the boundary
Route(post, st, d) ==
    [st EXCEPT !.store = d.store, !.exc = d.exc, !.scan = d.scan,
               !.db = d.db, !.routed = Append(@, post.ArticleId),
               !.seen = @ + 1]

\* line 221 for a post that does not arrive as listed
Unreadable(form) ==
    IF form = "NotObject" THEN "TypeError"
    ELSE IF form = "NoArticleId" THEN "KeyError"
    ELSE "none"

\* lines 227-228 for a post whose MediaData does not arrive as listed
Undecodable(form) ==
    IF form = "NoMediaData" THEN "KeyError"                       \* line 227
    ELSE IF form = "BadBase64" THEN "binascii.Error"              \* line 228
    ELSE "none"

\* a post before the boundary that reaches line 227 and leaves run() there
Reach(post, st, exc) ==
    [st EXCEPT !.exc = exc, !.routed = Append(@, post.ArticleId),
               !.seen = @ + 1]

\* st.seen posts of the page have been gone through
RECURSIVE ResumePosts(_, _, _, _, _)
ResumePosts(ps, la, runId, bad, st) ==
    IF ps = <<>> \/ st.exc # "none" THEN {st}
    ELSE IF Unreadable(FormAt(bad, PostForms, st.seen + 1)) # "none"
    THEN {[st EXCEPT !.exc = Unreadable(FormAt(bad, PostForms, st.seen + 1))]}
    ELSE IF IsLastArticle(la, Head(ps))
    THEN {[st EXCEPT !.found = TRUE, !.matched = TRUE]}       \* lines 224-225
    ELSE IF Undecodable(FormAt(bad, PostForms, st.seen + 1)) # "none"
    THEN {Reach(Head(ps), st,
                Undecodable(FormAt(bad, PostForms, st.seen + 1)))}
    ELSE UNION {ResumePosts(Tail(ps), la, runId, bad, Route(Head(ps), st, d)) :
                   d \in DetectPost(Head(ps), runId, st.store, st.db)}

\* st.docs documents of the page have been gone through
RECURSIVE ResumeDocs(_, _, _, _, _)
ResumeDocs(docs, la, runId, bad, st) ==
    IF docs = <<>> \/ st.exc # "none" THEN {st}
    ELSE IF FormAt(bad, DocForms, st.docs + 1) = "NoStartPostId"  \* line 214
    THEN {[st EXCEPT !.exc = "KeyError"]}
    ELSE IF DocIsStale(la, Head(docs), st.found)
    THEN {[st EXCEPT !.final = TRUE, !.stale = TRUE]}         \* lines 217-218
    ELSE UNION {ResumeDocs(Tail(docs), la, runId, bad,
                           [t EXCEPT !.docs = @ + 1]) :
                   t \in ResumePosts(Head(docs).Posts, la, runId, bad, st)}

(***************************************************************************)
(* run(), lines 124-299.  One action per page request together with the    *)
(* processing of the page it returns; run() is single-threaded, and the    *)
(* listing changes only between two calls (Publish).                       *)
(***************************************************************************)
RunRec(id, start) ==
    [_id |-> id, StartProcessTime |-> start, EndProcessTime |-> None,
     PostsProcessed |-> 0, BatchesProcessed |-> 0]

PageRec(offset, documents, kind, matched, stale) ==
    [offset |-> offset, docs |-> documents, n |-> Len(documents),
     kind |-> kind, matched |-> matched, stale |-> stale]

\* the job instances that share one database, and the locals of one of
\* them: save_all (line 155), its run id, the posts of the page it still has
\* to admit and the order_num it read at line 196
Jobs == {1, 2}

Job(at, save, runId, todo, order_num) ==
    [pc |-> at, save_all |-> save, run |-> runId, todo |-> todo,
     order_num |-> order_num]

Init ==
    /\ jobs = [j \in Jobs |-> Job("idle", FALSE, None, <<>>, None)]
    /\ upstream = <<>>
    /\ nextId = 1
    /\ posts = <<>>
    /\ counter = CounterSeed                                  \* lines 69-70
    /\ runs = <<>>
    /\ pc = "idle"
    /\ run = None
    /\ last_article = NoPost
    /\ request_offset = 0
    /\ final_batch = FALSE
    /\ last_article_found = FALSE
    /\ save_all = FALSE
    /\ posts_processed = 0
    /\ batches_processed = 0
    /\ outcome = "none"
    /\ requests = <<>>
    /\ pages = <<>>
    /\ routed = <<>>
    /\ scan = NoScan

\* The scraper adds a document ahead of the ones listed: n new posts, and as
\* StartPostId the ArticleId of its own first post or of the previous head
\* (None when nothing was listed before).
Publish(n, start, im) ==
    /\ pc = "idle"
    /\ Len(upstream) < MaxDocs
    /\ nextId + n - 1 <= MaxPosts
    /\ start \in {HeadId(upstream)} \cup {nextId + i : i \in {0} \cap 0..(n - 1)}
    /\ upstream' = <<Doc(start, [i \in 1..n |-> UpPost(nextId + i - 1, im)])>>
                     \o upstream
    /\ nextId' = nextId + n
    /\ UNCHANGED <<jobs, posts, counter, runs, pc, run, last_article,
                   request_offset,
                   final_batch, last_article_found, save_all, posts_processed,
                   batches_processed, outcome, requests, pages, routed, scan>>

\* lines 130-157
StartRun(la) ==
    /\ pc = "idle"
    /\ Len(runs) < MaxRuns
    /\ la \in FindOneByOrderNum(posts)                           \* line 145
    /\ last_article' = la
    /\ runs' = Append(runs, RunRec(Len(runs) + 1, Len(runs) + 1))
    /\ run' = Len(runs) + 1
    /\ request_offset' = 0
    /\ final_batch' = FALSE
    /\ last_article_found' = FALSE
    /\ save_all' = SaveAllMode(la)
    /\ posts_processed' = 0
    /\ batches_processed' = 0
    /\ pc' = "loop"
    /\ outcome' = "none"
    /\ requests' = <<>>
    /\ pages' = <<>>
    /\ routed' = <<>>
    /\ scan' = NoScan
    /\ UNCHANGED <<jobs, upstream, nextId, posts, counter>>

\* lines 130-146 raise: the health check of the REST interface or of mongod,
\* or the server is lost at find_one or at the insert of the Runs record.
\* Nothing was written yet; the locals and the histories stay those of the
\* last call that passed the check.
StartFail ==
    /\ pc = "idle"
    /\ outcome' = "AnalyzeConditionsNotMet"                  \* lines 294-297
    /\ UNCHANGED <<jobs, upstream, nextId, posts, counter, runs, pc, run,
                   last_article, request_offset, final_batch,
                   last_article_found, save_all, posts_processed,
                   batches_processed, requests, pages, routed, scan>>

\* lines 160-165 raise: transport error, bad status or undecodable body
RequestFail ==
    /\ pc = "loop"
    /\ requests' = Append(requests, request_offset)
    /\ pc' = "idle"
    /\ outcome' = "AnalyzeConditionsNotMet"                  \* lines 294-299
    /\ UNCHANGED <<jobs, upstream, nextId, posts, counter, runs, run, last_article,
                   request_offset, final_batch, last_article_found, save_all,
                   posts_processed, batches_processed, pages, routed, scan>>

\* what reading a malformed answer raises: KeyError when an object lacks
\* the key, TypeError when the value is no object (a list, null) or has no
\* length
Malformed == {"KeyError", "TypeError"}

\* line 169: the answer is JSON, but data['documents'] or its length cannot
\* be read
PageMalformed(exc) ==
    /\ pc = "loop"
    /\ exc \in Malformed
    /\ requests' = Append(requests, request_offset)
    /\ pc' = "idle"
    /\ outcome' = exc
    /\ UNCHANGED <<jobs, upstream, nextId, posts, counter, runs, run, last_article,
                   request_offset, final_batch, last_article_found, save_all,
                   posts_processed, batches_processed, pages, routed, scan>>

\* lines 175-180: the answer holds n documents, and doc['Posts'] or its
\* length cannot be read for one of them; line 178 has run by then
DocMalformed(n, exc) ==
    /\ pc = "loop"
    /\ n \in 1..BatchSize
    /\ exc \in Malformed
    /\ requests' = Append(requests, request_offset)
    /\ final_batch' = (final_batch \/ n < BatchSize)
    /\ pc' = "idle"
    /\ outcome' = exc
    /\ UNCHANGED <<jobs, upstream, nextId, posts, counter, runs, run, last_article,
                   request_offset, last_article_found, save_all,
                   posts_processed, batches_processed, pages, routed, scan>>

\* lines 169-173
PageEmpty ==
    /\ pc = "loop"
    /\ \E documents \in {Query(BatchSize, request_offset)} :
        /\ Len(documents) = 0
        /\ requests' = Append(requests, request_offset)
        /\ pages' = Append(pages,
                        PageRec(request_offset, <<>>, "empty", FALSE, FALSE))
        /\ pc' = "idle"
        /\ outcome' = "Exhausted"
        /\ UNCHANGED <<jobs, upstream, nextId, posts, counter, runs, run,
                       last_article, request_offset, final_batch,
                       last_article_found, save_all, posts_processed,
                       batches_processed, routed, scan>>

\* lines 175-186
PageFiller ==
    /\ pc = "loop"
    /\ \E documents \in {Query(BatchSize, request_offset)} :
        /\ Len(documents) # 0
        /\ NoPostsInBatch(documents)
        /\ requests' = Append(requests, request_offset)
        /\ pages' = Append(pages, PageRec(request_offset, documents,
                                          "filler", FALSE, FALSE))
        /\ final_batch' = (final_batch \/ Len(documents) < BatchSize)
        /\ request_offset' = request_offset + BatchSize
        /\ batches_processed' = batches_processed + 1
        /\ UNCHANGED <<jobs, upstream, nextId, posts, counter, runs, pc, run,
                       last_article, last_article_found, save_all,
                       posts_processed, outcome, routed, scan>>

EndOfPageSameOffset(final, boundary) ==
    IF final
    THEN /\ pc' = "idle"
         /\ outcome' = IF boundary THEN "BoundaryReached" ELSE "ShortPage"
         /\ UNCHANGED request_offset
    ELSE UNCHANGED <<request_offset, pc, outcome>>

\* lines 289-292, after a page that raised nothing
EndOfPage(final, boundary) ==
    IF final
    THEN /\ pc' = "idle"
         /\ outcome' = IF boundary THEN "BoundaryReached" ELSE "ShortPage"
         /\ UNCHANGED request_offset
    ELSE /\ request_offset' = request_offset + BatchSize
         /\ UNCHANGED <<pc, outcome>>

\* lines 294-299: the exceptions run() catches and raises again as
\* AnalyzeConditionsNotMetException
Caught == {"RequestException", "ServerSelectionTimeoutError", "JSONDecodeError"}

\* an exception ends run(); one that no except clause names leaves it as it is
Raise(exc) ==
    /\ pc' = "idle"
    /\ outcome' = IF exc \in Caught THEN "AnalyzeConditionsNotMet" ELSE exc
    /\ UNCHANGED request_offset

\* the answers a page request can get for the documents listed
Answers(documents) ==
    {WellFormed}
    \cup {Answer(k, form) : k \in 1..Len(PagePosts(documents)),
                            form \in PostForms}
    \cup {Answer(k, form) : k \in 1..Len(SelectSeq(documents, HasPosts)),
                            form \in DocForms}

\* A page ends at the first statement that raises, so a page with a failing
\* call and a malformed entry ends as the page with the earlier of the two
\* alone does: the pages with one of them cover all.
OneCause(fault, bad) == fault = 0 \/ bad = WellFormed

\* the bulk path over a page that arrives as bad and whose fault-th database
\* call fails
BulkPage(documents, fault, bad) ==
    BulkAdmit(PagePosts(documents), 1, bad, run,
        [store |-> posts, counter |-> counter, processed |-> posts_processed,
         exc |-> "none", db |-> Db(0, fault),
         final |-> (final_batch \/ Len(documents) < BatchSize)])

\* lines 175-178 and 188-210
PageSaveAll ==
    /\ pc = "loop"
    /\ save_all
    /\ \E documents \in {Query(BatchSize, request_offset)} :
        /\ Len(documents) # 0
        /\ ~NoPostsInBatch(documents)
        /\ \E fault \in 0..BulkPage(documents, 0, WellFormed).db.calls,
              bad \in Answers(documents) :
           /\ OneCause(fault, bad)
           /\ \E st \in {BulkPage(documents, fault, bad)} :
             /\ requests' = Append(requests, request_offset)
             /\ pages' = Append(pages, PageRec(request_offset, documents,
                                               "save_all", FALSE, FALSE))
             /\ posts' = st.store
             /\ counter' = st.counter
             /\ posts_processed' = st.processed
             /\ final_batch' = st.final
             /\ IF st.exc # "none" THEN Raise(st.exc)
                ELSE EndOfPage(st.final, FALSE)
             /\ UNCHANGED <<jobs, upstream, nextId, runs, run, last_article,
                            last_article_found, save_all, batches_processed,
                            routed, scan>>

\* the resume path over a page that arrives as bad and whose fault-th
\* database call fails: the states it can end in
ResumePage(documents, fault, bad) ==
    ResumeDocs(SelectSeq(documents, HasPosts), last_article, run, bad,
        [store |-> posts, exc |-> "none", db |-> Db(0, fault),
         found |-> last_article_found,
         final |-> (final_batch \/ Len(documents) < BatchSize),
         matched |-> FALSE, stale |-> FALSE, routed |-> routed, scan |-> scan,
         seen |-> 0, docs |-> 0])

\* lines 175-178 and 212-287
PageResume ==
    /\ pc = "loop"
    /\ ~save_all
    /\ \E documents \in {Query(BatchSize, request_offset)} :
        /\ Len(documents) # 0
        /\ ~NoPostsInBatch(documents)
        /\ \E clean \in ResumePage(documents, 0, WellFormed) :
           \E fault \in 0..clean.db.calls, bad \in Answers(documents) :
           /\ OneCause(fault, bad)
           /\ \E st \in ResumePage(documents, fault, bad) :
             /\ requests' = Append(requests, request_offset)
             /\ pages' = Append(pages, PageRec(request_offset, documents,
                                               "resume", st.matched, st.stale))
             /\ posts' = st.store
             /\ last_article_found' = st.found
             /\ final_batch' = st.final
             /\ routed' = st.routed
             /\ scan' = st.scan
             /\ IF st.exc # "none" THEN Raise(st.exc)
                ELSE EndOfPage(st.final, st.found \/ st.stale)
             /\ UNCHANGED <<jobs, upstream, nextId, counter, runs, run, last_article,
                            save_all, posts_processed, batches_processed>>

Next ==
    \/ \E n \in 0..MaxPosts, start \in 0..MaxPosts,
          im \in RunImages : Publish(n, start, im)
    \/ \E la \in FindOneByOrderNum(posts) : StartRun(la)
    \/ StartFail
    \/ RequestFail
    \/ \E exc \in Malformed : PageMalformed(exc)
    \/ \E n \in 1..BatchSize, exc \in Malformed : DocMalformed(n, exc)
    \/ PageEmpty
    \/ PageFiller
    \/ PageSaveAll
    \/ PageResume

Spec == Init /\ [][Next]_vars

(***************************************************************************)
(* Auxiliary definitions of the properties.                                *)
(***************************************************************************)
Success == {"Exhausted", "BoundaryReached", "ShortPage"}

\* some run() call has passed its health check
InRun == run # None

Ids(ps) == {ps[i].ArticleId : i \in 1..Len(ps)}

\* the documents this run() call has received, page after page
RECURSIVE Received(_)
Received(pgs) ==
    IF pgs = <<>> THEN <<>> ELSE Head(pgs).docs \o Received(Tail(pgs))

\* ArticleIds listed at or after a boundary in scan order: the posts of a
\* document whose StartPostId is the last-seen ArticleId, the last-seen post
\* itself and the posts after it in its document, and every later document
AtOrAfterBoundary(docs, la) ==
    {docs[j].Posts[q].ArticleId :
        <<j, q>> \in {jq \in (1..Len(docs)) \X (1..MaxPosts) :
            /\ jq[2] <= Len(docs[jq[1]].Posts)
            /\ \E k \in 1..jq[1] :
                 /\ HasPosts(docs[k])
                 /\ \/ docs[k].StartPostId = la.ArticleId
                    \/ \E m \in 1..Len(docs[k].Posts) :
                         /\ docs[k].Posts[m].ArticleId = la.ArticleId
                         /\ (k = jq[1] => m <= jq[2])}}

AdmittedInRun == {posts[i].ArticleId : i \in {j \in 1..Len(posts) : posts[j].RunId = run}}

\* the records stored for an ArticleId
Stored(article) == {i \in 1..Len(posts) : posts[i].ArticleId = article}

\* the last detection had a decoded image to work on and was not cut short
\* by the database
Scanned == scan.cand # None /\ scan.im # NoImage /\ scan.exc \notin Caught

\* the evidence entries a record carries for an ArticleId
EvidenceFor(pp, article) ==
    {m \in 1..Len(pp.Reposts) : pp.Reposts[m].ArticleId = article}

\* the stored entry j is an original that holds the very array of the
\* candidate: hash distance 0, SSIM 1 and MSE 0
SameImage(j) == scan.before[j].IsOriginal /\ scan.before[j].Media = scan.im

\* the record of the candidate is an original without evidence, or a repost
\* of an original that was stored before it
Classified(i) ==
    \/ posts[i].IsOriginal /\ posts[i].Reposts = <<>>
    \/ /\ ~posts[i].IsOriginal
       /\ posts[i].RepostOff \in 1..Len(scan.before)
       /\ scan.before[posts[i].RepostOff].IsOriginal

\* C1: the Posts store never holds two records with the same ArticleId.
C1_UniqueArticleId ==
    \A i, j \in 1..Len(posts) :
        posts[i].ArticleId = posts[j].ArticleId => i = j

\* A resume run has ended with posts listed ahead of the last-seen one.
C1_Witness ==
    /\ pc = "idle" /\ InRun /\ ~save_all /\ outcome # "none"
    /\ Len(runs) >= 2
    /\ Len(posts) >= 2
    /\ HeadId(upstream) # last_article.ArticleId
    /\ routed # <<>>

\* C2: a candidate routed to detection is scored against the stored posts
\* and ends up stored: as a repost of a stored original that passes the
\* thresholds, or, when no pair survives, as an original with an empty
\* Reposts list.
C2_FunnelDecides ==
    Scanned =>
        /\ \E i \in Stored(scan.cand) : Classified(i)
        /\ (\A j \in 1..Len(scan.before) : ~SameImage(j)) =>
              \A i \in Stored(scan.cand) : posts[i].IsOriginal

C4_SaveAllAdmitsInOrder ==
    (InRun /\ save_all) =>
        /\ Len(posts) <= Len(PagePosts(Received(pages)))
        /\ \A i \in 1..Len(posts) :
             /\ posts[i].ArticleId = PagePosts(Received(pages))[i].ArticleId
             /\ posts[i].IsOriginal
             /\ posts[i].OrderNum = CounterSeed + i - 1
             /\ \A j \in 1..Len(posts) :
                  i < j => posts[i].OrderNum < posts[j].OrderNum
        /\ outcome \in Success \cup {"none"} =>
             Len(posts) = Len(PagePosts(Received(pages)))

\* A save-all run has admitted three posts with OrderNum 1, 2, 3.
C4_Witness ==
    /\ InRun /\ save_all /\ pc = "idle" /\ outcome \in Success
    /\ Len(posts) = 3
    /\ \A i \in 1..3 : posts[i].OrderNum = i /\ posts[i].IsOriginal

C6_RoutedIsAdmitted ==
    (InRun /\ ~save_all /\ Scanned) =>
        /\ \A k \in 1..Len(routed) : Cardinality(Stored(routed[k])) = 1
        /\ \A j \in 1..Len(scan.before) :
              \E i \in 1..Len(scan.log) :
                  scan.log[i].pp = j /\ scan.log[i].compared

\* C7: a run that ended in Exhausted, BoundaryReached or ShortPage has its
\* Run record finalized: EndProcessTime set, counters stored.
C7_RunFinalized ==
    (InRun /\ pc = "idle" /\ outcome \in Success) =>
        /\ runs[run].EndProcessTime # None
        /\ runs[run].PostsProcessed = posts_processed
        /\ runs[run].BatchesProcessed = batches_processed

\* C8: after a non-empty page with fewer than BatchSize documents no further
\* page is requested.
C8_ShortPageIsFinal ==
    \A i \in 1..Len(pages) :
        (pages[i].n > 0 /\ pages[i].n < BatchSize) =>
            (i = Len(requests) /\ pc = "idle")

\* C9: the page in which the last-seen ArticleId is matched is the last one
\* requested, and the run ends in BoundaryReached after it.
C9_MatchPageIsFinal ==
    \A i \in 1..Len(pages) :
        pages[i].matched =>
            (i = Len(requests) /\ pc = "idle" /\ outcome = "BoundaryReached")

\* Every record of the store is an original of the bulk path without
\* evidence: no run has stored a repost, a record of the detection path or
\* an evidence entry.  (C10 and C19 speak of reposts and of evidence.)
OnlyBulkOriginals ==
    \A i \in 1..Len(posts) :
        /\ posts[i].IsOriginal
        /\ posts[i].MediaKey = "Media"
        /\ posts[i].RepostOff = None
        /\ posts[i].Reposts = <<>>

\* C11: a stored record with IsOriginal = true has a null RepostOff and a
\* record with IsOriginal = false has no evidence in Reposts; and the
\* records that were stored before the last detection are what they were:
\* no original has become a repost, no repost has received evidence.
C11_OriginalXorRepost ==
    /\ \A i \in 1..Len(posts) :
         /\ posts[i].IsOriginal => posts[i].RepostOff = None
         /\ ~posts[i].IsOriginal => posts[i].Reposts = <<>>
    /\ \A j \in 1..Len(scan.before) :
         /\ j <= Len(posts)
         /\ posts[j].IsOriginal = scan.before[j].IsOriginal
         /\ posts[j].RepostOff = scan.before[j].RepostOff
         /\ ~scan.before[j].IsOriginal => posts[j] = scan.before[j]

\* A resume run has sent a candidate down the detection path against a store
\* of two originals that hold the candidate's own image.
C11_Witness ==
    /\ InRun /\ ~save_all /\ Scanned
    /\ Len(scan.before) >= 2
    /\ \A j \in 1..Len(scan.before) : SameImage(j)
    /\ \A j \in 1..Len(scan.before) : posts[j].IsOriginal

\* the non-empty pages this run() call has iterated
NonEmptyPages == {i \in 1..Len(pages) : pages[i].n > 0}

\* C13: when a run has ended, its batch counter equals the number of
\* non-empty pages it iterated (pages with posts and filler pages alike) and
\* its post counter equals the number of Post records it inserted.
C13_CountersMatch ==
    (InRun /\ pc = "idle" /\ outcome \in Success) =>
        /\ batches_processed = Cardinality(NonEmptyPages)
        /\ posts_processed = Cardinality(AdmittedInRun)

\* C14: a run() call ends in one of the three termination states or with
\* AnalyzeConditionsNotMetException and with nothing else; after that error
\* the call has stopped and its Run record keeps a null EndProcessTime.
C14_TwoKindsOfOutcome ==
    /\ outcome \in Success \cup {"none", "AnalyzeConditionsNotMet"}
    /\ outcome = "AnalyzeConditionsNotMet" =>
         /\ pc = "idle"
         /\ \A i \in 1..Len(runs) :
              i = run => runs[i].EndProcessTime = None

\* records written by the bulk path: they carry an OrderNum
Bulk == {i \in 1..Len(posts) : posts[i].OrderNum # None}

\* C15: the bulk path admits only in a save-all run, and a save-all run is
\* one that found the store empty: every record of the store is then its
\* own.  A run that found a record on entry (a resume run) has written no
\* record with an OrderNum; so all records with an OrderNum stem from one
\* run.
C15_BulkOnlyOnEmptyStore ==
    InRun =>
        /\ save_all => \A i \in 1..Len(posts) : posts[i].RunId = run
        /\ ~save_all =>
             /\ last_article # NoPost
             /\ \A i \in Bulk : posts[i].RunId # run
        /\ \A i, j \in Bulk : posts[i].RunId = posts[j].RunId

\* A resume run found records of an earlier save-all run, met a post that is
\* not among them and sent it down the detection path.
C15_Witness ==
    /\ InRun /\ ~save_all /\ pc = "idle"
    /\ Bulk # {} /\ \A i \in Bulk : posts[i].RunId < run
    /\ \E k \in 1..Len(routed) : \A i \in 1..Len(posts) :
         posts[i].ArticleId # routed[k]
    /\ \E i \in 1..Len(pages) : pages[i].kind = "resume"

(***************************************************************************)
(* The loop of run() under the scheduling of a sequential program: a call  *)
(* that is inside "while True" (line 159) goes on to its next page request *)
(* and the handling of its answer.                                         *)
(***************************************************************************)
PageStep ==
    /\ pc = "loop"
    /\ \/ RequestFail
       \/ \E exc \in Malformed : PageMalformed(exc)
       \/ \E n \in 1..BatchSize, exc \in Malformed : DocMalformed(n, exc)
       \/ PageEmpty
       \/ PageFiller
       \/ PageSaveAll
       \/ PageResume

SpecFair == Spec /\ WF_vars(PageStep)

\* the i-th request of a call asks for offset (i - 1) * BatchSize, and a
\* listing of n documents is read with at most one request per page that
\* holds documents and one more, which returns the empty page
OffsetsInOrder ==
    /\ \A i \in 1..Len(requests) : requests[i] = (i - 1) * BatchSize
    /\ Len(requests) <= ((Len(upstream) + BatchSize - 1) \div BatchSize) + 1
    /\ pc = "loop" => request_offset = Len(requests) * BatchSize

\* C16: the offsets a run requests are 0, BatchSize, 2 * BatchSize, ... in
\* this order, none of them twice, and a run that is in its loop leaves it:
\* in a termination state or with an error.
C16_TraversesOnce ==
    /\ []OffsetsInOrder
    /\ (pc = "loop") ~> (pc = "idle" /\ outcome # "none")

\* A run has read a listing of BatchSize documents with two requests, the
\* second of which returned the empty page.
C16_Witness ==
    /\ InRun /\ pc = "idle" /\ outcome = "Exhausted"
    /\ requests = <<0, BatchSize>>
    /\ Len(pages) = 2 /\ pages[1].n = BatchSize /\ pages[2].n = 0

(***************************************************************************)
(* Two job instances on one database, each running run() on the save-all   *)
(* path over the same listing.  The database operations of lines 145, 146, *)
(* 196, 208 and 209 are atomic one by one, and the instances take turns in *)
(* any order between them.                                                 *)
(***************************************************************************)
RacePosts == 2          \* posts of the listing both instances read

InitRace ==
    /\ jobs = [j \in Jobs |-> Job("idle", FALSE, None, <<>>, None)]
    /\ upstream = <<Doc(None, [i \in 1..RacePosts |-> UpPost(i, ImgS)])>>
    /\ nextId = RacePosts + 1
    /\ posts = <<>>
    /\ counter = CounterSeed
    /\ runs = <<>>
    /\ pc = "idle"
    /\ run = None
    /\ last_article = NoPost
    /\ request_offset = 0
    /\ final_batch = FALSE
    /\ last_article_found = FALSE
    /\ save_all = FALSE
    /\ posts_processed = 0
    /\ batches_processed = 0
    /\ outcome = "none"
    /\ requests = <<>>
    /\ pages = <<>>
    /\ routed = <<>>
    /\ scan = NoScan

RaceUnchanged ==
    UNCHANGED <<upstream, nextId, pc, run, last_article, request_offset,
                final_batch, last_article_found, save_all, posts_processed,
                batches_processed, outcome, requests, pages, routed, scan>>

\* line 145: find_one; save_all (line 155) depends on nothing else
JobFind(j, la) ==
    /\ jobs[j].pc = "idle"
    /\ la \in FindOneByOrderNum(posts)
    /\ jobs' = [jobs EXCEPT ![j].pc = "found", ![j].save_all = SaveAllMode(la)]
    /\ UNCHANGED <<posts, counter, runs>>
    /\ RaceUnchanged

\* line 146: Runs.insert_one
JobRun(j) ==
    /\ jobs[j].pc = "found"
    /\ runs' = Append(runs, RunRec(Len(runs) + 1, Len(runs) + 1))
    /\ jobs' = [jobs EXCEPT ![j].pc = "page", ![j].run = Len(runs) + 1]
    /\ UNCHANGED <<posts, counter>>
    /\ RaceUnchanged

\* lines 160-188: the first page; an instance in resume mode takes the
\* resume path, which reads no Counter
JobPage(j) ==
    /\ jobs[j].pc = "page"
    /\ jobs' = [jobs EXCEPT ![j] =
                  IF jobs[j].save_all
                  THEN [@ EXCEPT !.pc = "read",
                                 !.todo = PagePosts(Query(BatchSize, 0))]
                  ELSE [@ EXCEPT !.pc = "resume"]]
    /\ UNCHANGED <<posts, counter, runs>>
    /\ RaceUnchanged

\* line 196: order_num = Counter.find_one().get('val')
JobRead(j) ==
    /\ jobs[j].pc = "read"
    /\ jobs' = [jobs EXCEPT ![j].order_num = counter, ![j].pc = "insert"]
    /\ UNCHANGED <<posts, counter, runs>>
    /\ RaceUnchanged

\* lines 197-208: insert_one(md)
JobInsert(j) ==
    /\ jobs[j].pc = "insert"
    /\ posts' = Append(posts,
                    Post(Len(posts) + 1, Head(jobs[j].todo).ArticleId,
                         jobs[j].order_num, jobs[j].run,
                         Head(jobs[j].todo).MediaData, "Media", TRUE, None,
                         <<>>))
    /\ jobs' = [jobs EXCEPT ![j].pc = "inc"]
    /\ UNCHANGED <<counter, runs>>
    /\ RaceUnchanged

\* line 209: $inc of val, then the next post of the page
JobInc(j) ==
    /\ jobs[j].pc = "inc"
    /\ counter' = CounterInc(counter)
    /\ jobs' = [jobs EXCEPT
                  ![j].todo = Tail(@),
                  ![j].pc = IF Tail(jobs[j].todo) = <<>> THEN "done"
                            ELSE "read"]
    /\ UNCHANGED <<posts, runs>>
    /\ RaceUnchanged

NextRace ==
    \E j \in Jobs :
        \/ \E la \in FindOneByOrderNum(posts) : JobFind(j, la)
        \/ JobRun(j)
        \/ JobPage(j)
        \/ JobRead(j)
        \/ JobInsert(j)
        \/ JobInc(j)

SpecRace == InitRace /\ [][NextRace]_vars

\* the instances that have entered run()
Entered == {j \in Jobs : jobs[j].pc # "idle"}

\* C17: the records one job instance admits have pairwise different
\* OrderNums, and as long as a single instance has run, no two records of
\* the store share an OrderNum.
C17_SingleInstanceUnique ==
    /\ \A i, k \in 1..Len(posts) :
         (i # k /\ posts[i].RunId = posts[k].RunId) =>
            posts[i].OrderNum # posts[k].OrderNum
    /\ Cardinality(Entered) <= 1 =>
         \A i, k \in 1..Len(posts) :
            i # k => posts[i].OrderNum # posts[k].OrderNum

\* Two instances were on the save-all path together and the store holds two
\* records, admitted by different instances, with the same OrderNum.
C17_Witness ==
    /\ \A j \in Jobs : jobs[j].pc = "done"
    /\ \E i, k \in 1..Len(posts) :
         /\ posts[i].RunId # posts[k].RunId
         /\ posts[i].OrderNum = posts[k].OrderNum


\* _scale_images found the ratios of the pair further apart than
\* scale_percent_dif and returned (None, None)
Unscalable(im, pp) ==
    scale_images(im, pp.Media) = {Scaled("none", NoImage, NoImage)}

\* C18: when the candidate cannot be scaled to a stored entry, the scan
\* raises nothing, and the candidate is stored at its end.
C18_UnscalableIsSkipped ==
    Scanned =>
        \A j \in 1..Len(scan.before) :
            Unscalable(scan.im, scan.before[j]) =>
                /\ scan.exc = "none"
                /\ scan.inserted
                /\ posts[Len(posts)].ArticleId = scan.cand

\* ArticleIds of the posts the upstream lists
Listed == Ids(PagePosts(upstream))

\* C20: at the step with which a run ends in one of the three termination
\* states, every post the upstream lists has a Post record in the store.
C20_NothingMissed ==
    [][(pc = "loop" /\ pc' = "idle" /\ outcome' \in Success) =>
          Listed' \subseteq Ids(posts')]_vars

====
